---- MODULE Spec2Model ----
(***************************************************************************)
(* The Upload-Analyze-Report pipeline of aidman-scan.                      *)
(*                                                                         *)
(* The model follows the edge function analyze-blood-smear (the serve      *)
(* handler of supabase/functions/analyze-blood-smear/index.ts), the two    *)
(* tables it writes (uploads, reports; the migration that creates them)    *)
(* and the client's delete of an upload (ResultsGrid.handleDelete).        *)
(* Every await of the handler is a point where other invocations and the   *)
(* client interleave, so each action below is the code between two awaits. *)
(* Spec is the handler with the tables; SpecParse is the parse step of the  *)
(* handler (lines 97-131) on its own, applied to every bounded payload.     *)
(* The client has a specification per component: SpecLayout (downloadReport *)
(* of Reports.tsx), SpecEdit (handleEdit and handleSave of Reports.tsx),    *)
(* SpecUpload (handleUpload of UploadSection.tsx), SpecView (the three      *)
(* views of the confidence) and SpecGrid (fetchUploads of ResultsGrid.tsx). *)
(***************************************************************************)
EXTENDS Integers, Sequences, FiniteSets, TLC

\* ------------------------------------------------------------------ bounds

\* Number of analyze invocations (each runs the handler once; they overlap freely).
NInvocations == 2

Invocations == 1..NInvocations

\* The sample ids a request may carry: one stored sample and one id the store
\* has never held.  NoUploadId is a request body without uploadId.
SampleIds == {"s1"}
UnknownId == "s9"
NoUploadId == ""
RequestIds == SampleIds \cup {UnknownId, NoUploadId}

\* ------------------------------------------------------------ JavaScript values

\* A JavaScript value: undefined, a boolean, a number (n, or n + 1/2 when frac)
\* or a string.  A string is a sequence of tokens (below).
Undefined == [k |-> "undefined", n |-> 0, frac |-> FALSE, s |-> <<>>]
Null == [k |-> "null", n |-> 0, frac |-> FALSE, s |-> <<>>]
Num(i) == [k |-> "number", n |-> i, frac |-> FALSE, s |-> <<>>]
Half(i) == [k |-> "number", n |-> i, frac |-> TRUE, s |-> <<>>]
Bool(b) == [k |-> "boolean", n |-> IF b THEN 1 ELSE 0, frac |-> FALSE, s |-> <<>>]
Str(toks) == [k |-> "string", n |-> 0, frac |-> FALSE, s |-> toks]

\* ToBoolean: what `v || d` tests.
Truthy(v) ==
    CASE v.k \in {"undefined", "null"} -> FALSE
      [] v.k = "boolean" -> v.n = 1
      [] v.k = "number" -> v.n # 0 \/ v.frac
      [] v.k = "string" -> v.s # <<>>

\* v || d
OrElse(v, d) == IF Truthy(v) THEN v ELSE d

\* ------------------------------------------------------------------ text

\* A text is a sequence of tokens: a maximal run of letters and punctuation
\* (word), a maximal run of digits (num), a percent sign, a run of
\* whitespace (sp), a brace, or one member `"key": value` of a JSON object
\* (kv; the commas and blanks between members belong to it).
W(str) == [t |-> "word", s |-> str, n |-> 0, v |-> Undefined]
D(i) == [t |-> "num", s |-> "", n |-> i, v |-> Undefined]
SP == [t |-> "sp", s |-> " ", n |-> 0, v |-> Undefined]
PCT == [t |-> "word", s |-> "%", n |-> 0, v |-> Undefined]
LB == [t |-> "word", s |-> "{", n |-> 0, v |-> Undefined]
RB == [t |-> "word", s |-> "}", n |-> 0, v |-> Undefined]
KV(key, val) == [t |-> "kv", s |-> key, n |-> 0, v |-> val]

\* String.prototype.toLowerCase on the words the payloads use.
ToLowerCase(str) ==
    CASE str \in {"Positive", "POSITIVE"} -> "positive"
      [] str \in {"Negative", "NEGATIVE"} -> "negative"
      [] str = "Detected" -> "detected"
      [] str = "Parasites" -> "parasites"
      [] str = "Parasite" -> "parasite"
      [] str = "Diagnosis:" -> "diagnosis:"
      [] str = "Result:" -> "result:"
      [] str = "Confidence:" -> "confidence:"
      [] str = "No" -> "no"
      [] OTHER -> str

\* String.prototype.toUpperCase on the two verdicts.
ToUpperCase(str) ==
    CASE str = "positive" -> "POSITIVE"
      [] str = "negative" -> "NEGATIVE"
      [] OTHER -> str

\* Whether a lower-case word contains `needle` (the words the payloads use).
WordIncludes(str, needle) ==
    CASE needle = "positive" -> str \in {"positive", "positive.", "non-positive"}
      [] needle = "detected" -> str \in {"detected", "detected.", "undetected"}
      [] needle = "parasite" -> str \in {"parasite", "parasites", "parasites.", "parasitemia"}
      [] OTHER -> FALSE

\* Whether a lower-case word starts with "parasite".
StartsWithParasite(str) ==
    str \in {"parasite", "parasites", "parasites.", "parasitemia"}

RECURSIVE TokenIncludes(_, _)
\* text.toLowerCase().includes(needle), for one token of the text.
TokenIncludes(tok, needle) ==
    CASE tok.t = "word" -> WordIncludes(ToLowerCase(tok.s), needle)
      [] tok.t = "kv" ->
            \/ WordIncludes(ToLowerCase(tok.s), needle)
            \/ /\ tok.v.k = "string"
               /\ \E j \in 1..Len(tok.v.s) : TokenIncludes(tok.v.s[j], needle)
      [] OTHER -> FALSE

\* text.toLowerCase().includes(needle)
Includes(text, needle) ==
    \E j \in 1..Len(text) : TokenIncludes(text[j], needle)

\* ------------------------------------------------------- the diagnosis parser

\* The positions of a token in a text.
Positions(text, tok) == {j \in 1..Len(text) : text[j] = tok}

Min(S) == CHOOSE x \in S : \A y \in S : x <= y
Max(S) == CHOOSE x \in S : \A y \in S : x >= y

\* aiContent.match(/\{[\s\S]*\}/): greedy, from the first "{" to the last "}"
\* after it.  <<>> is null (no match), else <<first, last>>.
JsonMatch(text) ==
    LET opens == Positions(text, LB)
        closes == {j \in Positions(text, RB) : opens # {} /\ j > Min(opens)}
    IN  IF opens = {} \/ closes = {} THEN <<>> ELSE <<Min(opens), Max(closes)>>

\* Whether JSON.parse accepts the matched substring: between the outer braces
\* there are only members "key": value and whitespace.
JsonParses(text, m) ==
    \A j \in (m[1] + 1)..(m[2] - 1) : text[j].t \in {"kv", "sp"}

\* parsed[key] of the object JSON.parse returned: the last member with that
\* key, undefined when there is none.
Member(text, m, key) ==
    LET at == {j \in (m[1] + 1)..(m[2] - 1) : text[j].t = "kv" /\ text[j].s = key}
    IN  IF at = {} THEN Undefined ELSE text[Max(at)].v

\* aiContent.match(/(\d+)%/): the first digit run directly followed by "%".
ConfidenceMatch(text) ==
    LET at == {j \in 1..(Len(text) - 1) : text[j].t = "num" /\ text[j + 1] = PCT}
    IN  IF at = {} THEN <<>> ELSE <<text[Min(at)].n>>

RECURSIVE SkipSpaces(_, _)
\* The first position at or after j that holds no whitespace.
SkipSpaces(text, j) ==
    IF j <= Len(text) /\ text[j].t = "sp" THEN SkipSpaces(text, j + 1) ELSE j

\* aiContent.match(/(\d+)\s*parasite/i): the first digit run followed, after
\* optional whitespace, by "parasite" in any case.
ParasiteMatch(text) ==
    LET at == {j \in 1..Len(text) :
                 /\ text[j].t = "num"
                 /\ LET nxt == SkipSpaces(text, j + 1)
                    IN  /\ nxt <= Len(text)
                        /\ text[nxt].t = "word"
                        /\ StartsWithParasite(ToLowerCase(text[nxt].s))}
    IN  IF at = {} THEN <<>> ELSE <<text[Min(at)].n>>

\* The values the handler starts from, kept whenever the try block throws.
ParseDefaults(aiContent) ==
    [result |-> "negative", confidence |-> Num(50), parasitesCount |-> Num(0),
     description |-> aiContent]

\* The JSON branch: the fields of the parsed object.  A result that is neither
\* a string nor undefined/null has no toLowerCase: the TypeError leaves the
\* defaults in place.
ParseJson(aiContent, m) ==
    LET text == aiContent.s
        r == Member(text, m, "result")
    IN  IF r.k \notin {"string", "undefined", "null"}
        THEN ParseDefaults(aiContent)
        ELSE [result |-> IF r.k = "string" /\ Includes(r.s, "positive")
                         THEN "positive" ELSE "negative",
              confidence |-> OrElse(Member(text, m, "confidence"), Num(50)),
              parasitesCount |-> OrElse(Member(text, m, "parasites_count"), Num(0)),
              description |-> OrElse(Member(text, m, "description"), aiContent)]

\* Mutant of ParseText: the confidence default of the handler's other copy
\* (85), and the findings left out.
ParseTextOtherDefaults(aiContent) ==
    LET text == aiContent.s
        cm == ConfidenceMatch(text)
        pm == ParasiteMatch(text)
    IN  [result |-> IF Includes(text, "positive") \/ Includes(text, "detected")
                    THEN "positive" ELSE "negative",
         confidence |-> IF cm # <<>> THEN Num(cm[1]) ELSE Num(85),
         parasitesCount |-> IF pm # <<>> THEN Num(pm[1]) ELSE Num(0),
         description |-> Str(<<>>)]

\* The text fallback: keywords for the verdict, the two regexes for the numbers.
ParseText(aiContent) ==
    LET text == aiContent.s
        cm == ConfidenceMatch(text)
        pm == ParasiteMatch(text)
    IN  [result |-> IF Includes(text, "positive") \/ Includes(text, "detected")
                    THEN "positive" ELSE "negative",
         confidence |-> IF cm # <<>> THEN Num(cm[1]) ELSE Num(50),
         parasitesCount |-> IF pm # <<>> THEN Num(pm[1]) ELSE Num(0),
         description |-> aiContent]

\* Lines 97-131: aiContent -> result, confidence, parasitesCount, description.
\* A content that is no string has no match method, and a matched substring
\* that is no JSON makes JSON.parse throw: both are caught and leave the defaults.
ParseAI(aiContent) ==
    IF aiContent.k # "string" THEN ParseDefaults(aiContent)
    ELSE LET m == JsonMatch(aiContent.s)
         IN  IF m # <<>>
             THEN IF JsonParses(aiContent.s, m)
                  THEN ParseJson(aiContent, m)
                  ELSE ParseDefaults(aiContent)
             ELSE ParseText(aiContent)

\* ------------------------------------------------------------ the two tables

\* A nullable column holds <<>> (NULL) or <<value>>.
NULL == <<>>

\* The row the upload step inserts: status 'pending', the diagnosis columns
\* NULL, parasites_detected at its column default.
NewUpload ==
    [user_id |-> "u1", file_url |-> "blood-smears/u1/1.png", status |-> "pending",
     diagnosis_result |-> NULL, probability_score |-> NULL, parasites_detected |-> <<0>>]

\* CHECK (status IN (...)) of the uploads table.
StatusCheck(status) == status \in {"pending", "processing", "completed", "failed"}

\* Whether a JSON value sent for a numeric column is a number or a string that
\* is one digit run.
IsNumeric(v) ==
    \/ v.k = "number"
    \/ v.k = "string" /\ Len(v.s) = 1 /\ v.s[1].t = "num"

\* The number a numeric JSON value is cast to.
ToNumeric(v) == IF v.k = "string" THEN Num(v.s[1].n) ELSE v

\* probability_score DECIMAL(5,2): three digits before the point.
AcceptsDecimal(v) ==
    /\ IsNumeric(v)
    /\ LET x == ToNumeric(v)
       IN  IF x.frac THEN x.n >= -1000 /\ x.n <= 999 ELSE x.n >= -999 /\ x.n <= 999

\* The largest value of an INTEGER column.
IntegerMax == 2147483647

\* parasites_detected INTEGER: no fractional part, 32 bits.
AcceptsInteger(v) ==
    /\ IsNumeric(v)
    /\ LET x == ToNumeric(v)
       IN  ~x.frac /\ x.n >= -IntegerMax - 1 /\ x.n <= IntegerMax

\* Whether the uploads table accepts the columns of an update.
UpdateAccepted(fields) ==
    /\ "status" \in DOMAIN fields => StatusCheck(fields.status)
    /\ "probability_score" \in DOMAIN fields => AcceptsDecimal(fields.probability_score)
    /\ "parasites_detected" \in DOMAIN fields => AcceptsInteger(fields.parasites_detected)

\* The value a column holds after an accepted update set it.
Cast(column, v) ==
    CASE column = "status" -> v
      [] column = "diagnosis_result" -> <<v>>
      [] column = "probability_score" -> <<ToNumeric(v)>>
      [] column = "parasites_detected" -> <<ToNumeric(v).n>>

\* UPDATE uploads SET fields WHERE id = ...: the row after the update.
SetColumns(row, fields) ==
    [c \in DOMAIN row |-> IF c \in DOMAIN fields THEN Cast(c, fields[c]) ELSE row[c]]

\* .update({ status: 'processing' })
ProcessingFields == [status |-> "processing"]

\* Mutant of CompletedFields: the status is stored without the diagnosis.
CompletedFieldsStatusOnly(result, confidence, parasitesCount) ==
    [status |-> "completed"]

\* .update({ status: 'completed', diagnosis_result, probability_score, parasites_detected })
CompletedFields(result, confidence, parasitesCount) ==
    [status |-> "completed", diagnosis_result |-> result,
     probability_score |-> confidence, parasites_detected |-> parasitesCount]

\* The two recommendation texts of the report insert.
Recommendations(result) ==
    IF result = "positive"
    THEN "Immediate medical consultation recommended. Follow up with confirmatory testing and appropriate antimalarial treatment if confirmed."
    ELSE "No malaria parasites detected. Continue monitoring if symptoms persist. Consult healthcare provider for any concerns."

\* The result_summary template, by its four slots.
ResultSummary(result, confidence, parasitesCount, description) ==
    [diagnosis |-> ToUpperCase(result), confidence |-> confidence,
     parasites |-> parasitesCount, analysis |-> description]

\* Mutant of ReportRow: the recommendation follows the parasite count.
ReportRowByCount(userId, uploadId, p) ==
    [user_id |-> userId, upload_id |-> uploadId,
     result_summary |-> ResultSummary(p.result, p.confidence, p.parasitesCount, p.description),
     recommendations |-> Recommendations(IF Truthy(p.parasitesCount)
                                         THEN "positive" ELSE "negative")]

\* The row of the report insert.
ReportRow(userId, uploadId, p) ==
    [user_id |-> userId, upload_id |-> uploadId,
     result_summary |-> ResultSummary(p.result, p.confidence, p.parasitesCount, p.description),
     recommendations |-> Recommendations(p.result)]

\* ------------------------------------------------------------ inputs

\* What the model gateway answers with (choices[0].message.content).
\* A JSON answer, as the prompt asks for, inside a sentence.
PayloadJson ==
    Str(<<W("Result:"), SP, LB,
          KV("result", Str(<<W("Positive")>>)), KV("confidence", Num(87)),
          KV("parasites_count", Num(12)), KV("description", Str(<<W("x")>>)),
          RB, SP, W("done")>>)
\* Prose without any brace.
PayloadProse ==
    Str(<<W("Diagnosis:"), SP, W("positive."), SP, W("Confidence:"), SP, D(73), PCT,
          W("."), SP, D(5), SP, W("parasites"), SP, W("detected.")>>)
\* The empty string.
PayloadEmpty == Str(<<>>)
\* Braces around text that is no JSON.
PayloadBadJson ==
    Str(<<W("Diagnosis:"), SP, W("positive"), SP, LB, W("see"), SP, W("above"), RB>>)
\* A confidence beyond three digits.
PayloadOverflow == Str(<<LB, KV("result", Str(<<W("negative")>>)), KV("confidence", Num(1000)), RB>>)
\* A fractional parasite count.
PayloadFraction == Str(<<LB, KV("confidence", Num(90)), KV("parasites_count", Half(2)), RB>>)
\* A confidence above 100 and a negative parasite count, both within what the
\* columns hold.
PayloadOutOfRange ==
    Str(<<LB, KV("confidence", Num(150)), KV("parasites_count", Num(-3)), RB>>)

Payloads ==
    {PayloadJson, PayloadProse, PayloadEmpty, PayloadBadJson, PayloadOverflow,
     PayloadFraction, PayloadOutOfRange, Undefined}

\* The gateway's answers: a success with a JSON body, a success whose body is
\* no JSON (aiResponse.json() throws), a non-success status with a body text,
\* or fetch itself throwing (connection refused, reset, aborted).
OkReply(content) ==
    [threw |-> FALSE, ok |-> TRUE, status |-> 200, json |-> TRUE,
     content |-> content, errorText |-> ""]
ModelReplies ==
    {OkReply(c) : c \in Payloads}
    \cup {[OkReply(Undefined) EXCEPT !.json = FALSE]}
    \cup {[OkReply(Undefined) EXCEPT !.ok = FALSE, !.status = st, !.errorText = txt] :
            st \in {429, 402, 500}, txt \in {"", "upstream unavailable"}}
    \cup {[OkReply(Undefined) EXCEPT !.threw = TRUE, !.ok = FALSE, !.status = 0]}

\* ------------------------------------------------------------ errors and responses

\* An error message is the sequence of the parts its template concatenates.
IsEmptyMessage(msg) == \A j \in 1..Len(msg) : msg[j] = ""

\* Mutant of AiError: the 402 branch is missing.
AiErrorWithout402(status, errorText) ==
    CASE status = 429 -> <<"Rate limit exceeded. Please try again later.">>
      [] OTHER -> <<"AI analysis failed: ", errorText>>

\* Lines 83-89: the error thrown for a non-success answer.
AiError(status, errorText) ==
    CASE status = 429 -> <<"Rate limit exceeded. Please try again later.">>
      [] status = 402 -> <<"AI credits exhausted. Please add credits to continue.">>
      [] OTHER -> <<"AI analysis failed: ", errorText>>

\* The messages of the errors the handler does not build itself.
UploadIdRequired == <<"Upload ID is required">>
NoRowsError == <<"JSON object requested, multiple (or no) rows returned">>
StoreFaultError == <<"store request failed">>
SchemaError == <<"value rejected by the column type">>
FetchError == <<"error sending request">>
BodyError == <<"Unexpected token in JSON">>

NoResponse ==
    [status |-> 0, success |-> FALSE, result |-> "", confidence |-> Undefined,
     parasitesCount |-> Undefined, error |-> <<>>]

\* Lines 160-168: the success response.
SuccessResponse(p) ==
    [status |-> 200, success |-> TRUE, result |-> p.result, confidence |-> p.confidence,
     parasitesCount |-> p.parasitesCount, error |-> <<>>]

\* Lines 170-183: the catch block's response, error.message || 'Analysis failed'.
ErrorResponse(message) ==
    [status |-> 500, success |-> FALSE, result |-> "", confidence |-> Undefined,
     parasitesCount |-> Undefined,
     error |-> IF IsEmptyMessage(message) THEN <<"Analysis failed">> ELSE message]

\* ------------------------------------------------------------ state

VARIABLES
    uploads,        \* the uploads table: id -> row, for the ids it holds
    reports,        \* the reports table: its rows, in insertion order
    pc,             \* per invocation: the await the handler is suspended at
    uploadId,       \* per invocation: the id of the request body
    upload,         \* per invocation: <<user_id, file_url>> of the row the select returned
    aiResponse,     \* per invocation: what the fetch of the gateway gave
    parsed,         \* per invocation: result, confidence, parasitesCount, description
    response,       \* per invocation: the Response returned to the caller
    storeWrites,    \* per invocation: updates of uploads issued so far
    modelCalls,     \* per invocation: fetches of the gateway issued so far
    reportInserts,  \* per invocation: inserts into reports issued so far
    payload,        \* the parse step on its own: the aiContent it is given
    diagnosis,      \* the parse step on its own: <<>>, then <<what it yields>>
    report,         \* downloadReport: the report it is called with
    doc,            \* downloadReport: <<>>, then <<the document it writes>>
    storage,        \* the blood-smears bucket: the names of the objects it holds
    analyzeCalls,   \* the bodies analyze-blood-smear was invoked with, in order
    channel,        \* the change notifications of uploads not yet delivered
    uploadSection,  \* UploadSection: <<>>, or <<its state and where handleUpload is>>
    reportsPage,    \* Reports: <<>>, or <<its state and the saves under way>>
    resultsGrid,    \* ResultsGrid: <<>>, or <<its state and the fetches under way>>
    score,          \* the views of the confidence: <<>>, or <<the probability_score read>>
    rendered        \* the views of the confidence: <<>>, then <<what each view shows>>

\* The state of the handler and the tables, and of the parse step on its own.
handlerVars ==
    <<uploads, reports, pc, uploadId, upload, aiResponse, parsed, response,
      storeWrites, modelCalls, reportInserts>>

parserVars == <<payload, diagnosis>>
layoutVars == <<report, doc>>
viewVars == <<score, rendered>>
clientVars ==
    <<storage, analyzeCalls, channel, uploadSection, reportsPage, resultsGrid, viewVars>>

\* The variables the handler and the delete leave alone.
otherVars == <<parserVars, layoutVars, clientVars>>

vars ==
    <<uploads, reports, pc, uploadId, upload, aiResponse, parsed, response,
      storeWrites, modelCalls, reportInserts, payload, diagnosis, report, doc,
      storage, analyzeCalls, channel, uploadSection, reportsPage, resultsGrid,
      score, rendered>>

NoAiResponse == [state |-> "none", ok |-> FALSE, status |-> 0]
NoParse == ParseDefaults(Undefined)

\* The handler before any request, the tables after the upload step.
\* No invocation of the handler is under way.
InvocationsIdle ==
    /\ pc = [i \in Invocations |-> "idle"]
    /\ uploadId = [i \in Invocations |-> NoUploadId]
    /\ upload = [i \in Invocations |-> <<>>]
    /\ aiResponse = [i \in Invocations |-> NoAiResponse]
    /\ parsed = [i \in Invocations |-> NoParse]
    /\ response = [i \in Invocations |-> NoResponse]
    /\ storeWrites = [i \in Invocations |-> 0]
    /\ modelCalls = [i \in Invocations |-> 0]
    /\ reportInserts = [i \in Invocations |-> 0]

HandlerInit ==
    /\ uploads = [id \in SampleIds |-> NewUpload]
    /\ reports = <<>>
    /\ InvocationsIdle

\* No parse step on its own is under way.
ParserIdle == payload = Undefined /\ diagnosis = <<>>

\* No report is being downloaded.
LayoutIdle == report = <<>> /\ doc = <<>>

\* No client component is mounted and nothing of theirs is in the bucket or
\* under way.
UploadIdle == storage = {} /\ analyzeCalls = <<>> /\ uploadSection = <<>>
EditIdle == reportsPage = <<>>
GridIdle == channel = 0 /\ resultsGrid = <<>>
ViewIdle == score = <<>> /\ rendered = <<>>
ClientIdle == UploadIdle /\ EditIdle /\ GridIdle /\ ViewIdle

Init ==
    /\ HandlerInit
    /\ ParserIdle
    /\ LayoutIdle
    /\ ClientIdle

\* ------------------------------------------------------------ the serve handler

\* return new Response(...): the invocation ends with response r.
Return(i, r) ==
    /\ pc' = [pc EXCEPT ![i] = "done"]
    /\ response' = [response EXCEPT ![i] = r]

\* Lines 10-33: the request arrives; without an uploadId the handler throws,
\* else it issues the select of the upload.
Invoke(i, id) ==
    /\ pc[i] = "idle"
    /\ uploadId' = [uploadId EXCEPT ![i] = id]
    /\ IF id = NoUploadId
       THEN Return(i, ErrorResponse(UploadIdRequired))
       ELSE /\ pc' = [pc EXCEPT ![i] = "select"]
            /\ UNCHANGED response
    /\ UNCHANGED <<uploads, reports, upload, aiResponse, parsed, storeWrites,
                   modelCalls, reportInserts>>
    /\ UNCHANGED otherVars

\* Whether the select's .single() gives a row.
SelectFinds(i, fault) == ~fault /\ uploadId[i] \in DOMAIN uploads

\* What the handler reads of the selected row afterwards: upload.user_id and
\* upload.file_url.
Selected(row) == <<[user_id |-> row.user_id, file_url |-> row.file_url]>>

\* Mutant of Load: the select's error is not looked at.
LoadUnchecked(i, fault) ==
    /\ pc[i] = "select"
    /\ upload' = [upload EXCEPT ![i] =
                    IF SelectFinds(i, fault) THEN Selected(uploads[uploadId[i]])
                    ELSE <<[user_id |-> "", file_url |-> ""]>>]
    /\ pc' = [pc EXCEPT ![i] = "markProcessing"]
    /\ UNCHANGED <<uploads, reports, uploadId, aiResponse, parsed, response,
                   storeWrites, modelCalls, reportInserts>>
    /\ UNCHANGED otherVars

\* Lines 29-37: the select answers; an error (no row, or the request failed)
\* is thrown to the catch block.
Load(i, fault) ==
    /\ pc[i] = "select"
    /\ IF SelectFinds(i, fault)
       THEN /\ upload' = [upload EXCEPT ![i] = Selected(uploads[uploadId[i]])]
            /\ pc' = [pc EXCEPT ![i] = "markProcessing"]
            /\ UNCHANGED response
       ELSE /\ Return(i, ErrorResponse(IF fault THEN StoreFaultError ELSE NoRowsError))
            /\ UNCHANGED upload
    /\ UNCHANGED <<uploads, reports, uploadId, aiResponse, parsed, storeWrites,
                   modelCalls, reportInserts>>
    /\ UNCHANGED otherVars

\* Mutant of UpdateUploads: the statement also requires that the row is not
\* 'completed' yet, so the first completed update wins.
UpdateUploadsFirstWins(id, fields, fault) ==
    IF ~fault /\ UpdateAccepted(fields) /\ id \in DOMAIN uploads
       /\ uploads[id].status # "completed"
    THEN [uploads EXCEPT ![id] = SetColumns(@, fields)]
    ELSE uploads

\* UPDATE uploads SET fields WHERE id = ...: the table after the statement.  A
\* failed request and a statement that matches no row change nothing.
UpdateUploads(id, fields, fault) ==
    IF ~fault /\ UpdateAccepted(fields) /\ id \in DOMAIN uploads
    THEN [uploads EXCEPT ![id] = SetColumns(@, fields)]
    ELSE uploads

\* Lines 39-43: the update to 'processing'; its outcome is not looked at.
MarkProcessing(i, fault) ==
    /\ pc[i] = "markProcessing"
    /\ uploads' = UpdateUploads(uploadId[i], ProcessingFields, fault)
    /\ storeWrites' = [storeWrites EXCEPT ![i] = @ + 1]
    /\ pc' = [pc EXCEPT ![i] = "fetch"]
    /\ UNCHANGED <<reports, uploadId, upload, aiResponse, parsed, response,
                   modelCalls, reportInserts>>
    /\ UNCHANGED otherVars

\* Lines 46-77: the fetch of the model gateway is issued.
CallModel(i) ==
    /\ pc[i] = "fetch"
    /\ modelCalls' = [modelCalls EXCEPT ![i] = @ + 1]
    /\ pc' = [pc EXCEPT ![i] = "awaitModel"]
    /\ UNCHANGED <<uploads, reports, uploadId, upload, aiResponse, parsed,
                   response, storeWrites, reportInserts>>
    /\ UNCHANGED otherVars

\* Lines 79-90 and the throws of fetch and aiResponse.json(): the error that
\* reaches the catch block, <<>> when there is none.
ReplyError(reply) ==
    CASE reply.threw -> <<FetchError>>
      [] ~reply.threw /\ ~reply.ok -> <<AiError(reply.status, reply.errorText)>>
      [] ~reply.threw /\ reply.ok /\ ~reply.json -> <<BodyError>>
      [] OTHER -> <<>>

\* Mutant of ModelResponds: a failed model call issues a further update of
\* the sample before the error is returned.
ModelRespondsWithExtraWrite(i, reply) ==
    /\ pc[i] = "awaitModel"
    /\ aiResponse' = [aiResponse EXCEPT ![i] =
                        [state |-> IF reply.threw THEN "threw" ELSE "answered",
                         ok |-> reply.ok, status |-> reply.status]]
    /\ IF ReplyError(reply) # <<>>
       THEN /\ Return(i, ErrorResponse(ReplyError(reply)[1]))
            /\ storeWrites' = [storeWrites EXCEPT ![i] = @ + 1]
            /\ UNCHANGED parsed
       ELSE /\ parsed' = [parsed EXCEPT ![i] = ParseAI(reply.content)]
            /\ pc' = [pc EXCEPT ![i] = "complete"]
            /\ UNCHANGED <<response, storeWrites>>
    /\ UNCHANGED <<uploads, reports, uploadId, upload, modelCalls, reportInserts>>
    /\ UNCHANGED otherVars

\* Lines 77-131: the gateway answers (or fetch throws); a success is parsed.
ModelResponds(i, reply) ==
    /\ pc[i] = "awaitModel"
    /\ aiResponse' = [aiResponse EXCEPT ![i] =
                        [state |-> IF reply.threw THEN "threw" ELSE "answered",
                         ok |-> reply.ok, status |-> reply.status]]
    /\ IF ReplyError(reply) # <<>>
       THEN /\ Return(i, ErrorResponse(ReplyError(reply)[1]))
            /\ UNCHANGED parsed
       ELSE /\ parsed' = [parsed EXCEPT ![i] = ParseAI(reply.content)]
            /\ pc' = [pc EXCEPT ![i] = "complete"]
            /\ UNCHANGED response
    /\ UNCHANGED <<uploads, reports, uploadId, upload, storeWrites, modelCalls,
                   reportInserts>>
    /\ UNCHANGED otherVars

\* Mutant of UpdateError: the final update's error is never seen.
UpdateErrorIgnored(fields, fault) == <<>>

\* The updateError of the final update: the request failed, or the table
\* rejected a value.
UpdateError(fields, fault) ==
    IF fault THEN <<StoreFaultError>>
    ELSE IF ~UpdateAccepted(fields) THEN <<SchemaError>>
    ELSE <<>>

\* Lines 133-144: the update to 'completed' with the diagnosis; its error is thrown.
Complete(i, fault) ==
    LET fields == CompletedFields(parsed[i].result, parsed[i].confidence,
                                  parsed[i].parasitesCount)
    IN  /\ pc[i] = "complete"
        /\ uploads' = UpdateUploads(uploadId[i], fields, fault)
        /\ storeWrites' = [storeWrites EXCEPT ![i] = @ + 1]
        /\ IF UpdateError(fields, fault) # <<>>
           THEN /\ Return(i, ErrorResponse(UpdateError(fields, fault)[1]))
                /\ parsed' = [parsed EXCEPT ![i] = NoParse]
           ELSE /\ pc' = [pc EXCEPT ![i] = "report"]
                /\ UNCHANGED <<response, parsed>>
        /\ UNCHANGED <<reports, uploadId, upload, aiResponse, modelCalls,
                       reportInserts>>
        /\ UNCHANGED otherVars

\* INSERT INTO reports: upload_id references uploads(id), so the row is
\* refused when the upload is gone; a failed request inserts nothing.
InsertReports(row, fault) ==
    IF ~fault /\ row.upload_id \in DOMAIN uploads
    THEN Append(reports, row)
    ELSE reports

\* Mutant of CreateReport: a failed insert takes the 'completed' status back.
CreateReportRollingBack(i, fault) ==
    /\ pc[i] = "report"
    /\ reports' = InsertReports(ReportRow(upload[i][1].user_id, uploadId[i], parsed[i]), fault)
    /\ uploads' = IF reports' = reports
                  THEN UpdateUploads(uploadId[i], [status |-> "failed"], FALSE)
                  ELSE uploads
    /\ reportInserts' = [reportInserts EXCEPT ![i] = @ + 1]
    /\ Return(i, SuccessResponse(parsed[i]))
    /\ parsed' = [parsed EXCEPT ![i] = NoParse]
    /\ UNCHANGED <<uploadId, upload, aiResponse, storeWrites, modelCalls>>
    /\ UNCHANGED otherVars

\* Lines 146-168: the report insert, its outcome not looked at, then the
\* success response.
CreateReport(i, fault) ==
    /\ pc[i] = "report"
    /\ reports' = InsertReports(ReportRow(upload[i][1].user_id, uploadId[i], parsed[i]), fault)
    /\ reportInserts' = [reportInserts EXCEPT ![i] = @ + 1]
    /\ Return(i, SuccessResponse(parsed[i]))
    /\ parsed' = [parsed EXCEPT ![i] = NoParse]
    /\ UNCHANGED <<uploads, uploadId, upload, aiResponse, storeWrites, modelCalls>>
    /\ UNCHANGED otherVars

\* ------------------------------------------------------------ the client

RECURSIVE Without(_, _)
\* The rows of a table that do not reference upload id.
Without(rows, id) ==
    IF rows = <<>> THEN <<>>
    ELSE IF Head(rows).upload_id = id THEN Without(Tail(rows), id)
    ELSE <<Head(rows)>> \o Without(Tail(rows), id)

\* ResultsGrid.handleDelete: the upload row is deleted, and with it
\* (ON DELETE CASCADE) the reports that reference it.
Delete(id) ==
    /\ id \in DOMAIN uploads
    /\ uploads' = [x \in DOMAIN uploads \ {id} |-> uploads[x]]
    /\ reports' = Without(reports, id)
    /\ UNCHANGED <<pc, uploadId, upload, aiResponse, parsed, response, storeWrites,
                   modelCalls, reportInserts>>
    /\ UNCHANGED otherVars

\* ------------------------------------------------------------ specification

Next ==
    \/ \E i \in Invocations, id \in RequestIds : Invoke(i, id)
    \/ \E i \in Invocations, fault \in BOOLEAN : Load(i, fault)
    \/ \E i \in Invocations, fault \in BOOLEAN : MarkProcessing(i, fault)
    \/ \E i \in Invocations : CallModel(i)
    \/ \E i \in Invocations, reply \in ModelReplies : ModelResponds(i, reply)
    \/ \E i \in Invocations, fault \in BOOLEAN : Complete(i, fault)
    \/ \E i \in Invocations, fault \in BOOLEAN : CreateReport(i, fault)
    \/ \E id \in SampleIds : Delete(id)

Spec == Init /\ [][Next]_vars

\* ------------------------------------------------- the parse step on its own

\* The longest generated text, in tokens.
MaxTextLen == 3

\* The tokens the generated texts are made of.
TextAlphabet ==
    {W("Diagnosis:"), W("positive"), W("negative"), W("detected"), W("parasites"),
     D(73), PCT, SP, LB, RB, KV("confidence", Num(0))}

\* Whether a token is a run of letters and punctuation other than "%", "{", "}".
IsLetters(tok) == tok.t = "word" /\ tok \notin {PCT, LB, RB}

\* A token sequence is the tokenisation of a string when its runs are maximal:
\* no two digit runs, whitespace runs or letter runs are adjacent.
WellFormed(text) ==
    \A j \in 1..(Len(text) - 1) :
        /\ ~(text[j].t = "num" /\ text[j + 1].t = "num")
        /\ ~(text[j].t = "sp" /\ text[j + 1].t = "sp")
        /\ ~(IsLetters(text[j]) /\ IsLetters(text[j + 1]))

\* Every string of at most MaxTextLen tokens of the alphabet.
Texts ==
    {Str(text) : text \in {t \in UNION {[1..n -> TextAlphabet] : n \in 0..MaxTextLen} :
                             WellFormed(t)}}

\* Labelled prose around braces that hold no JSON.
PayloadBadJsonProse ==
    Str(<<W("Diagnosis:"), SP, W("positive."), SP, W("Confidence:"), SP, D(73), PCT,
          SP, LB, W("see"), SP, W("above"), RB, SP, D(5), SP, W("parasites")>>)
\* Prose whose labelled diagnosis is negative and that has the word "detected".
PayloadLabelledNegative ==
    Str(<<W("Diagnosis:"), SP, W("negative."), SP, W("No"), SP, W("parasites"), SP,
          W("detected.")>>)

\* The answer the prompt asks for: one JSON object with a string result, an
\* integer confidence, an integer parasites_count and a description.
JsonPayload(r, c, n) ==
    Str(<<LB, KV("result", Str(<<W(r)>>)), KV("confidence", Num(c)),
          KV("parasites_count", Num(n)), KV("description", Str(<<W("x")>>)), RB>>)
JsonPayloads ==
    {JsonPayload(r, c, n) : r \in {"positive", "POSITIVE", "Negative"},
                            c \in {0, 87, 100}, n \in {0, 12}}

\* Payloads longer than the generated texts.
ParserPayloads == {PayloadBadJsonProse, PayloadLabelledNegative} \cup JsonPayloads

\* What the parse step is given: choices?.[0]?.message?.content of any answer.
ParserInputs == Texts \cup Payloads \cup ParserPayloads

ParseInit ==
    /\ HandlerInit
    /\ LayoutIdle
    /\ ClientIdle
    /\ payload \in ParserInputs
    /\ diagnosis = <<>>

\* Lines 97-131 applied to the payload.
Parse ==
    /\ diagnosis = <<>>
    /\ diagnosis' = <<ParseAI(payload)>>
    /\ UNCHANGED payload
    /\ UNCHANGED <<handlerVars, layoutVars, clientVars>>

ParseNext == Parse

SpecParse == ParseInit /\ [][ParseNext]_vars

\* ------------------------------------------------- the report document

\* The most lines the patient bio, the summary and the recommendations wrap to.
MaxBioLines == 38
MaxSummaryLines == 6
MaxRecLines == 2

\* let y = 20, and y = 20 after doc.addPage().
PageTop == 20
\* if (y > 270): the lowest position a block line is drawn at.
BreakY == 270
\* The height of the page of new jsPDF(): A4 in millimetres.
PageHeight == 297
\* The footer is drawn at doc.internal.pageSize.getHeight() - 10.
FooterY == PageHeight - 10

\* What downloadReport reads of a report: whether it has a patient name and a
\* species label, and the number of lines doc.splitTextToSize wraps the bio
\* (0: no bio), the summary and the recommendations (0: none) to.
Reports ==
    [hasName : BOOLEAN, bioLines : 0..MaxBioLines, hasSpecies : BOOLEAN,
     summaryLines : 1..MaxSummaryLines, recLines : 0..MaxRecLines]

\* The document while it is written: the statement downloadReport is at (at,
\* and idx inside a forEach), the cursor y, the current page and the texts
\* drawn so far, each with its page and position.
NewDoc == [at |-> "title", idx |-> 0, y |-> PageTop, page |-> 1, drawn |-> <<>>]

\* doc.text(...) at the cursor.
Text(d, kind, idx) ==
    [d EXCEPT !.drawn = Append(@, [kind |-> kind, idx |-> idx, page |-> d.page, y |-> d.y])]

\* y += dy
Down(d, dy) == [d EXCEPT !.y = @ + dy]

\* doc.addPage(); y = 20
AddPage(d) == [d EXCEPT !.page = @ + 1, !.y = PageTop]

\* The next statement is `at`, at line idx of its forEach.
Goto(d, at, idx) == [d EXCEPT !.at = at, !.idx = idx]

\* The lines block kind of report r wraps to.
LinesOf(r, kind) ==
    CASE kind = "bio" -> r.bioLines
      [] kind = "summary" -> r.summaryLines
      [] kind = "recommendations" -> r.recLines

LayoutInit ==
    /\ HandlerInit
    /\ ParserIdle
    /\ ClientIdle
    /\ report \in {<<r>> : r \in Reports}
    /\ doc = <<NewDoc>>

\* One statement of downloadReport turns document d into document e.
Write(d, e) ==
    /\ doc = <<d>>
    /\ doc' = <<e>>
    /\ UNCHANGED report
    /\ UNCHANGED <<handlerVars, parserVars, clientVars>>

\* Lines 136-145: title and date.
DrawTitle ==
    \E d \in {doc[k] : k \in 1..Len(doc)} :
        /\ d.at = "title"
        /\ Write(d, Goto(Down(Text(Down(Text(d, "title", 1), 15), "date", 1), 10),
                         "patient", 0))

\* Lines 147-159: the patient information heading and name, when the report
\* has a name or a bio.
DrawPatient ==
    \E d \in {doc[k] : k \in 1..Len(doc)} :
        LET r == report[1]
            h == Down(Text(d, "heading", 1), 8)
            nm == IF r.hasName THEN Down(Text(h, "name", 1), 6) ELSE h
        IN  /\ d.at = "patient"
            /\ Write(d, IF ~r.hasName /\ r.bioLines = 0
                        THEN Goto(d, "sample", 0)
                        ELSE Goto(nm, "bio", 1))

\* Mutant of DrawLine: the line that meets the page break is not drawn.
DrawLineDropping ==
    \E d \in {doc[k] : k \in 1..Len(doc)} :
        /\ d.at \in {"bio", "summary", "recommendations"}
        /\ d.idx <= LinesOf(report[1], d.at)
        /\ Write(d, IF d.y > BreakY
                    THEN Goto(AddPage(d), d.at, d.idx + 1)
                    ELSE Goto(Down(Text(d, d.at, d.idx), 6), d.at, d.idx + 1))

\* Lines 162-169, 204-211, 224-231: one turn of a forEach over the lines of
\* a block: the page break when y > 270, the text, y += 6.
DrawLine ==
    \E d \in {doc[k] : k \in 1..Len(doc)} :
        LET top == IF d.y > BreakY THEN AddPage(d) ELSE d
        IN  /\ d.at \in {"bio", "summary", "recommendations"}
            /\ d.idx <= LinesOf(report[1], d.at)
            /\ Write(d, Goto(Down(Text(top, d.at, d.idx), 6), d.at, d.idx + 1))

\* Lines 171, 212-220, 232: after the last line of a block (the heading of
\* the recommendations when the report has them).
EndBlock ==
    \E d \in {doc[k] : k \in 1..Len(doc)} :
        /\ d.at \in {"bio", "summary", "recommendations"}
        /\ d.idx > LinesOf(report[1], d.at)
        /\ Write(d, CASE d.at = "bio" -> Goto(Down(d, 6), "sample", 0)
                      [] d.at = "summary" ->
                            IF report[1].recLines = 0
                            THEN Goto(Down(d, 6), "footer", 0)
                            ELSE Goto(Down(Text(Down(d, 6), "heading", 4), 8),
                                      "recommendations", 1)
                      [] d.at = "recommendations" -> Goto(d, "footer", 0))

\* Lines 174-199: the sample information and the heading of the summary.
DrawSample ==
    \E d \in {doc[k] : k \in 1..Len(doc)} :
        LET h == Down(Text(d, "heading", 2), 8)
            file == Down(Text(h, "file", 1), 6)
            dg == Down(Text(file, "diagnosis", 1), 6)
            sp == IF report[1].hasSpecies THEN Down(Text(dg, "species", 1), 6) ELSE dg
            cf == Down(Text(sp, "confidence", 1), 6)
            pa == Down(Text(cf, "parasites", 1), 12)
        IN  /\ d.at = "sample"
            /\ Write(d, Goto(Down(Text(pa, "heading", 3), 8), "summary", 1))

\* Lines 235-248: the footers (they draw on every page at the footer
\* position) and doc.save.
Save ==
    \E d \in {doc[k] : k \in 1..Len(doc)} :
        /\ d.at = "footer"
        /\ Write(d, Goto(d, "saved", 0))

LayoutNext ==
    \/ DrawTitle
    \/ DrawPatient
    \/ DrawLine
    \/ EndBlock
    \/ DrawSample
    \/ Save

SpecLayout == LayoutInit /\ [][LayoutNext]_vars

\* ------------------------------------------------------------ Reports: annotations

\* handleEdit and handleSave of the Reports page against the reports table.
\* The page is <<[reports, editingReport, editData, saves, saveCalls, toasts]>>:
\* its three pieces of state, the updates whose await has not returned yet
\* (each with the error it will return), the number of calls of handleSave
\* and the toasts shown.

\* The calls of handleSave explored.
MaxSaves == 2

\* What the clinician types into a field.
Annotations == {"", "a"}

EditFields == {"patient_name", "patient_bio", "malaria_species"}

\* A row of reports as the handler inserted it (20251003115757: id, user_id,
\* upload_id, result_summary, recommendations, created_at) with the three
\* nullable columns added by 20251002151548.
StoredReport(id, created_at, patient_name) ==
    [id |-> id, user_id |-> "u1", upload_id |-> "s1",
     result_summary |-> "summary of " \o id, recommendations |-> "recommendations of " \o id,
     created_at |-> created_at,
     patient_name |-> patient_name, patient_bio |-> NULL, malaria_species |-> NULL]

\* report.patient_name || ""
OrEmpty(v) == IF v = NULL \/ v = <<"">> THEN "" ELSE v[1]

\* Mutant of UpdateReports: the update also empties the summary.
UpdateReportsWithSummary(id, fields, fault) ==
    IF fault THEN reports
    ELSE [k \in DOMAIN reports |->
            IF reports[k].id = id
            THEN [f \in DOMAIN reports[k] |->
                    IF f \in DOMAIN fields THEN <<fields[f]>>
                    ELSE IF f = "result_summary" THEN "" ELSE reports[k][f]]
            ELSE reports[k]]

\* .from('reports').update(fields).eq('id', id): the columns named by fields
\* of the rows with that id; no row at all when the request fails. An id
\* that matches no row is no error.
UpdateReports(id, fields, fault) ==
    IF fault THEN reports
    ELSE [k \in DOMAIN reports |->
            IF reports[k].id = id
            THEN [f \in DOMAIN reports[k] |->
                    IF f \in DOMAIN fields THEN <<fields[f]>> ELSE reports[k][f]]
            ELSE reports[k]]

NoEditData == [patient_name |-> "", patient_bio |-> "", malaria_species |-> ""]

\* The page after its first fetch, showing rows.
ReportsPage(rows) ==
    [reports |-> rows, editingReport |-> NULL, editData |-> NoEditData,
     saves |-> <<>>, saveCalls |-> 0, toasts |-> <<>>]

\* The table holds one or two reports; the page shows what it fetched, which
\* may include a report deleted since.
EditInit ==
    /\ uploads = [id \in SampleIds |-> NewUpload]
    /\ InvocationsIdle
    /\ ParserIdle
    /\ LayoutIdle
    /\ UploadIdle
    /\ GridIdle
    /\ ViewIdle
    /\ \E name \in {NULL, <<"b">>} :
          LET r1 == StoredReport("r1", 1, name)
              r2 == StoredReport("r2", 2, NULL)
          IN  /\ reports \in {<<r2, r1>>, <<r1>>}
              /\ reportsPage = <<ReportsPage(<<r2, r1>>)>>

\* One handler of the page turns page p into page q.
EditFrame ==
    UNCHANGED <<uploads, pc, uploadId, upload, aiResponse, parsed, response,
                storeWrites, modelCalls, reportInserts, parserVars, layoutVars,
                storage, analyzeCalls, channel, uploadSection, resultsGrid, viewVars>>

\* Lines 101-108: the Edit button of a report that is not being edited.
HandleEdit ==
    \E p \in {reportsPage[k] : k \in 1..Len(reportsPage)} :
    \E k \in DOMAIN p.reports :
        LET r == p.reports[k]
        IN  /\ p.editingReport # <<r.id>>
            /\ reportsPage' = <<[p EXCEPT
                    !.editingReport = <<r.id>>,
                    !.editData = [patient_name |-> OrEmpty(r.patient_name),
                                  patient_bio |-> OrEmpty(r.patient_bio),
                                  malaria_species |-> OrEmpty(r.malaria_species)]]>>
            /\ UNCHANGED reports
            /\ EditFrame

\* Lines 364-390: onChange of one of the three inputs of the edited report.
SetEditData ==
    \E p \in {reportsPage[k] : k \in 1..Len(reportsPage)} :
    \E f \in EditFields, v \in Annotations :
        /\ p.editingReport # NULL
        /\ p.editData[f] # v
        /\ reportsPage' = <<[p EXCEPT !.editData[f] = v]>>
        /\ UNCHANGED reports
        /\ EditFrame

\* Lines 110-115: the Save button of the edited report, up to the await: the
\* store applies the update or fails it.
HandleSave ==
    \E p \in {reportsPage[k] : k \in 1..Len(reportsPage)} :
    \E fault \in BOOLEAN :
        /\ p.editingReport # NULL
        /\ p.saveCalls < MaxSaves
        /\ reports' = UpdateReports(p.editingReport[1], p.editData, fault)
        /\ reportsPage' = <<[p EXCEPT !.saves = Append(@, [error |-> fault]),
                                       !.saveCalls = @ + 1]>>
        /\ EditFrame

\* Lines 117-125: the await of a save returns; without error the page leaves
\* the edit mode and fetches the reports again (76-99, a failed fetch keeps
\* the rows shown).
SaveReturns ==
    \E p \in {reportsPage[k] : k \in 1..Len(reportsPage)} :
    \E fetchFault \in BOOLEAN :
        /\ p.saves # <<>>
        /\ reportsPage' = <<
              IF Head(p.saves).error
              THEN [p EXCEPT !.saves = Tail(@),
                             !.toasts = Append(@, "Failed to update report")]
              ELSE [p EXCEPT !.saves = Tail(@),
                             !.editingReport = NULL,
                             !.reports = IF fetchFault THEN @ ELSE reports,
                             !.toasts = Append(@, "Patient information updated")]>>
        /\ UNCHANGED reports
        /\ EditFrame

EditNext ==
    \/ HandleEdit
    \/ SetEditData
    \/ HandleSave
    \/ SaveReturns

SpecEdit == EditInit /\ [][EditNext]_vars

\* ------------------------------------------------------------ UploadSection: handleUpload

\* handleUpload of the upload form against the bucket, the uploads table and
\* the analyze function. The form is <<[selectedFile, uploading, at, file,
\* fileName, uploadRecord, calls, toasts]>>: its state, the await handleUpload
\* is suspended at with the constants of its closure, the number of calls
\* and the toast titles shown.

\* The calls of handleUpload explored.
MaxUploads == 2

\* The files the user may select: name and extension.
Files == {[name |-> "a.png", ext |-> "png"], [name |-> "b.jpg", ext |-> "jpg"]}

\* The id the store gives the row of the n-th call (gen_random_uuid: fresh).
NewId(n) == "s" \o ToString(n)

\* user.id/Date.now().ext, the clock read at the n-th call.
FileName(user, n, file) == user \o "/" \o ToString(n) \o "." \o file.ext

\* getPublicUrl(fileName)
PublicUrl(fileName) == "blood-smears/" \o fileName

NewUploadSection ==
    [selectedFile |-> NULL, uploading |-> FALSE, at |-> "idle", file |-> NULL,
     fileName |-> NULL, uploadRecord |-> NULL, calls |-> 0, toasts |-> <<>>]

UploadInit ==
    /\ uploads = <<>>
    /\ reports = <<>>
    /\ InvocationsIdle
    /\ ParserIdle
    /\ LayoutIdle
    /\ EditIdle
    /\ GridIdle
    /\ ViewIdle
    /\ storage = {}
    /\ analyzeCalls = <<>>
    /\ uploadSection = <<NewUploadSection>>

UploadFrame ==
    UNCHANGED <<reports, pc, uploadId, upload, aiResponse, parsed, response,
                storeWrites, modelCalls, reportInserts, parserVars, layoutVars,
                channel, reportsPage, resultsGrid, viewVars>>

\* Lines 106-114: catch and finally of a throw: the toast, setUploading(false).
Catch(p) ==
    [p EXCEPT !.toasts = Append(@, "Upload failed"), !.uploading = FALSE,
              !.at = "idle", !.file = NULL, !.fileName = NULL, !.uploadRecord = NULL]

\* Mutant of InsertUploads: a refused insert leaves its row behind.
InsertUploadsKeepingRow(id, row, fault) ==
    [k \in DOMAIN uploads \cup {id} |-> IF k = id THEN row ELSE uploads[k]]

\* .from("uploads").insert(row): the table with the row under a fresh id, or
\* the table as it was when the insert fails.
InsertUploads(id, row, fault) ==
    IF fault THEN uploads
    ELSE [k \in DOMAIN uploads \cup {id} |-> IF k = id THEN row ELSE uploads[k]]

\* handleFileSelect (lines 14-44): the user picks an image file.
HandleFileSelect ==
    \E p \in {uploadSection[k] : k \in 1..Len(uploadSection)} :
    \E file \in Files :
        /\ p.selectedFile # <<file>>
        /\ uploadSection' = <<[p EXCEPT !.selectedFile = <<file>>]>>
        /\ UNCHANGED <<uploads, storage, analyzeCalls>>
        /\ UploadFrame

\* Lines 46-51: the Upload button (disabled while uploading); without a
\* selected file handleUpload returns at once and nothing changes.
HandleUpload ==
    \E p \in {uploadSection[k] : k \in 1..Len(uploadSection)} :
        /\ ~p.uploading
        /\ p.selectedFile # NULL
        /\ p.calls < MaxUploads
        /\ uploadSection' = <<[p EXCEPT !.uploading = TRUE, !.at = "getUser",
                                         !.file = p.selectedFile, !.calls = @ + 1]>>
        /\ UNCHANGED <<uploads, storage, analyzeCalls>>
        /\ UploadFrame

\* Lines 51-56: getUser returns; no user is a throw.
GetUser ==
    \E p \in {uploadSection[k] : k \in 1..Len(uploadSection)} :
    \E user \in {NULL, <<"u1">>} :
        /\ p.at = "getUser"
        /\ uploadSection' = <<
              IF user = NULL THEN Catch(p)
              ELSE [p EXCEPT !.at = "upload",
                             !.fileName = <<FileName(user[1], p.calls, p.file[1])>>]>>
        /\ UNCHANGED <<uploads, storage, analyzeCalls>>
        /\ UploadFrame

\* Lines 58-62: the storage upload; uploadError is a throw.
StorageUpload ==
    \E p \in {uploadSection[k] : k \in 1..Len(uploadSection)} :
    \E fault \in BOOLEAN :
        /\ p.at = "upload"
        /\ storage' = IF fault THEN storage ELSE storage \cup {p.fileName[1]}
        /\ uploadSection' = <<IF fault THEN Catch(p) ELSE [p EXCEPT !.at = "insert"]>>
        /\ UNCHANGED <<uploads, analyzeCalls>>
        /\ UploadFrame

\* Lines 64-81: the insert of the 'pending' row; insertError is a throw.
InsertUpload ==
    \E p \in {uploadSection[k] : k \in 1..Len(uploadSection)} :
    \E fault \in BOOLEAN :
        /\ p.at = "insert"
        /\ uploads' = InsertUploads(NewId(p.calls),
                                    [NewUpload EXCEPT !.file_url = PublicUrl(p.fileName[1])],
                                    fault)
        /\ uploadSection' = <<IF fault THEN Catch(p)
                               ELSE [p EXCEPT !.at = "invoke",
                                              !.uploadRecord = <<NewId(p.calls)>>]>>
        /\ UNCHANGED <<storage, analyzeCalls>>
        /\ UploadFrame

\* Lines 83-86: functions.invoke('analyze-blood-smear', {body: {uploadId}}).
InvokeAnalyze ==
    \E p \in {uploadSection[k] : k \in 1..Len(uploadSection)} :
        /\ p.at = "invoke"
        /\ analyzeCalls' = Append(analyzeCalls, [uploadId |-> p.uploadRecord[1]])
        /\ uploadSection' = <<[p EXCEPT !.at = "invoked"]>>
        /\ UNCHANGED <<uploads, storage>>
        /\ UploadFrame

\* Lines 88-114: the invoke returns, with or without analysisError: a toast,
\* the form is reset, setUploading(false).
InvokeReturns ==
    \E p \in {uploadSection[k] : k \in 1..Len(uploadSection)} :
    \E analysisError \in BOOLEAN :
        /\ p.at = "invoked"
        /\ uploadSection' = <<[p EXCEPT
                !.toasts = Append(@, IF analysisError
                                     THEN "Analysis started with errors"
                                     ELSE "Analysis started!"),
                !.selectedFile = NULL, !.uploading = FALSE, !.at = "idle",
                !.file = NULL, !.fileName = NULL, !.uploadRecord = NULL]>>
        /\ UNCHANGED <<uploads, storage, analyzeCalls>>
        /\ UploadFrame

UploadNext ==
    \/ HandleFileSelect
    \/ HandleUpload
    \/ GetUser
    \/ StorageUpload
    \/ InsertUpload
    \/ InvokeAnalyze
    \/ InvokeReturns

SpecUpload == UploadInit /\ [][UploadNext]_vars

\* ------------------------------------------------------------ the views of the confidence

\* The three places that show uploads.probability_score, each as a function
\* of the number the select returned. A text is [kind, n, decimals]: a
\* percentage n with its decimals (<<>> when it is printed without a
\* decimal point), the text N/A, a bare number, or nothing.

\* The largest confidence shown.
MaxScore == 100

Percent(n, decimals) == [kind |-> "percent", n |-> n, decimals |-> decimals]
NotAvailable == [kind |-> "N/A", n |-> 0, decimals |-> <<>>]
Bare(n) == [kind |-> "number", n |-> n, decimals |-> <<>>]
Nothing == [kind |-> "nothing", n |-> 0, decimals |-> <<>>]

\* (x).toFixed(1), x an integer: its digits, a point and one 0.
ToFixed1(x) == <<0>>

\* ResultsGrid.tsx:180-185: {probability_score && (<div>... {probability_score}% ...)}.
\* React renders the number 0 of a false left side as the text 0, and null as
\* nothing.
ConfidenceRow(v) ==
    IF Truthy(v) THEN Percent(v.n, <<>>)
    ELSE IF v.k = "number" THEN Bare(v.n) ELSE Nothing

\* Reports.tsx:451-455: probability_score ? (probability_score * 100).toFixed(1) + % : N/A
ConfidenceStat(v) ==
    IF Truthy(v) THEN Percent(v.n * 100, ToFixed1(v.n * 100)) ELSE NotAvailable

\* Reports.tsx:190: the Confidence line of the document, the same expression.
ConfidenceLine(v) ==
    IF Truthy(v) THEN Percent(v.n * 100, ToFixed1(v.n * 100)) ELSE NotAvailable

ViewInit ==
    /\ HandlerInit
    /\ ParserIdle
    /\ LayoutIdle
    /\ UploadIdle
    /\ EditIdle
    /\ GridIdle
    /\ score \in {<<Num(c)>> : c \in 0..MaxScore} \cup {<<Null>>}
    /\ rendered = <<>>

\* The three views render the score.
Render ==
    /\ rendered = <<>>
    /\ rendered' = <<[row |-> ConfidenceRow(score[1]),
                      stat |-> ConfidenceStat(score[1]),
                      line |-> ConfidenceLine(score[1])]>>
    /\ UNCHANGED score
    /\ UNCHANGED <<handlerVars, parserVars, layoutVars, storage, analyzeCalls,
                   channel, uploadSection, reportsPage, resultsGrid>>

ViewNext == Render

SpecView == ViewInit /\ [][ViewNext]_vars

\* ------------------------------------------------------------ ResultsGrid: fetchUploads

\* The results list against the uploads table and its change channel. The
\* grid is <<[uploads, loading, fetches, started]>>: its state, the calls of
\* fetchUploads whose await has not returned (each with the rows its select
\* read, once the store has answered it) and the number of calls so far.

\* select("*") as far as the list shows it: id -> status.
Snapshot == [id \in DOMAIN uploads |-> uploads[id].status]

\* The status a write of the handler moves a row to.
NextStatus(status) ==
    CASE status = "pending" -> "processing"
      [] status = "processing" -> "completed"

\* The grid on mount (lines 33-37): nothing shown, the first fetchUploads
\* called, the channel subscribed.
NewResultsGrid ==
    [uploads |-> <<>>, loading |-> TRUE,
     fetches |-> {[n |-> 1, data |-> <<>>]}, started |-> 1]

GridInit ==
    /\ HandlerInit
    /\ ParserIdle
    /\ LayoutIdle
    /\ UploadIdle
    /\ EditIdle
    /\ ViewIdle
    /\ channel = 0
    /\ resultsGrid = <<NewResultsGrid>>

GridFrame ==
    UNCHANGED <<reports, pc, uploadId, upload, aiResponse, parsed, response,
                storeWrites, modelCalls, reportInserts, parserVars, layoutVars,
                storage, analyzeCalls, uploadSection, reportsPage, viewVars>>

\* A write of the handler to a row of uploads (index.ts:39-43, 133-142); the
\* store posts the change on the channel.
UploadsChange ==
    \E id \in DOMAIN uploads :
        /\ uploads[id].status \in {"pending", "processing"}
        /\ uploads' = UpdateUploads(id, [status |-> NextStatus(uploads[id].status)], FALSE)
        /\ channel' = channel + 1
        /\ UNCHANGED resultsGrid
        /\ GridFrame

\* handleDelete (lines 76-89): the row is deleted; the store posts the change.
HandleDelete ==
    \E id \in DOMAIN uploads :
    \E g \in {resultsGrid[k] : k \in 1..Len(resultsGrid)} :
        /\ id \in DOMAIN g.uploads
        /\ uploads' = [k \in DOMAIN uploads \ {id} |-> uploads[k]]
        /\ channel' = channel + 1
        /\ UNCHANGED resultsGrid
        /\ GridFrame

\* Lines 49-51: a change notification is delivered: fetchUploads is called.
Notified ==
    \E g \in {resultsGrid[k] : k \in 1..Len(resultsGrid)} :
        /\ channel > 0
        /\ channel' = channel - 1
        /\ resultsGrid' = <<[g EXCEPT
                !.fetches = @ \cup {[n |-> g.started + 1, data |-> <<>>]},
                !.started = @ + 1]>>
        /\ UNCHANGED uploads
        /\ GridFrame

\* Lines 62-65: the store answers the select of a fetch with the rows it
\* holds then.
FetchReads ==
    \E g \in {resultsGrid[k] : k \in 1..Len(resultsGrid)} :
    \E f \in g.fetches :
        /\ f.data = <<>>
        /\ resultsGrid' = <<[g EXCEPT
                !.fetches = (@ \ {f}) \cup {[f EXCEPT !.data = <<Snapshot>>]}]>>
        /\ UNCHANGED <<uploads, channel>>
        /\ GridFrame

\* Lines 67-73: the await of a fetch returns, in whatever order the answers
\* arrive: setUploads(data), setLoading(false).
FetchReturns ==
    \E g \in {resultsGrid[k] : k \in 1..Len(resultsGrid)} :
    \E f \in g.fetches :
        /\ f.data # <<>>
        /\ resultsGrid' = <<[g EXCEPT !.uploads = f.data[1], !.loading = FALSE,
                                       !.fetches = @ \ {f}]>>
        /\ UNCHANGED <<uploads, channel>>
        /\ GridFrame

GridNext ==
    \/ UploadsChange
    \/ HandleDelete
    \/ Notified
    \/ FetchReads
    \/ FetchReturns

SpecGrid == GridInit /\ [][GridNext]_vars

\* ------------------------------------------------------------ properties

\* Whether the diagnosis columns of a row hold values.
HasDiagnosis(row) == row.diagnosis_result # NULL /\ row.probability_score # NULL

\* Invocation i is the only one that has started.
Alone(i) == \A j \in Invocations \ {i} : pc[j] = "idle"

\* Invocation i has returned, and the sample it was about is in the store.
Returned(i) == pc[i] = "done" /\ uploadId[i] \in DOMAIN uploads

\* The reason code a caller reads off an error response.
ReasonOf(r) ==
    CASE r.error = <<"Rate limit exceeded. Please try again later.">> -> "rate_limited"
      [] r.error = <<"AI credits exhausted. Please add credits to continue.">> -> "quota_exhausted"
      [] r.error # <<>> /\ r.error[1] = "AI analysis failed: " -> "upstream_error"
      [] OTHER -> "none"

\* The reason code the specification assigns to a non-success status.
ReasonFor(status) ==
    CASE status = 429 -> "rate_limited"
      [] status = 402 -> "quota_exhausted"
      [] OTHER -> "upstream_error"

\* C1: in every state of the store, a sample's diagnosis columns are non-null
\* if and only if its status is 'completed'.
DiagnosisIffCompleted ==
    \A id \in DOMAIN uploads :
        uploads[id].status = "completed" <=> HasDiagnosis(uploads[id])

\* C2: no step changes a stored status of 'completed' or 'failed' back to
\* 'pending' or 'processing'.
StatusOnlyMovesForward ==
    [][\A id \in DOMAIN uploads \cap DOMAIN uploads' :
          uploads[id].status \in {"completed", "failed"}
              => uploads'[id].status \notin {"pending", "processing"}]_vars

\* C3: an invocation whose model call was answered with a non-success status
\* has, when it returns, stored 'failed' and no diagnosis (stated for an
\* invocation that runs alone on a stored sample).
FailedCallStoresFailed ==
    \A i \in Invocations :
        (Returned(i) /\ Alone(i) /\ aiResponse[i].state = "answered" /\ ~aiResponse[i].ok)
            => /\ uploads[uploadId[i]].status = "failed"
               /\ ~HasDiagnosis(uploads[uploadId[i]])

\* C4: once the invocation that set 'processing' has returned, the sample is
\* not left in 'processing' (stated for an invocation that runs alone, so the
\* 'processing' in the store is its own).
ReturnLeavesNoProcessing ==
    \A i \in Invocations :
        (Returned(i) /\ Alone(i)) => uploads[uploadId[i]].status # "processing"

\* Whether invocation i ended on a failed store request or an unreadable body.
EnvironmentFault(i) == response[i].error \in {StoreFaultError, BodyError}

\* C5: analyze on a pending sample whose model call succeeds ends with the
\* sample stored as 'completed' with verdict, confidence and parasite count,
\* whatever text the model returned (stated for an invocation that runs alone
\* and meets no failed store request).
SuccessEndsCompleted ==
    \A i \in Invocations :
        (Returned(i) /\ Alone(i) /\ aiResponse[i].ok /\ ~EnvironmentFault(i))
            => /\ uploads[uploadId[i]].status = "completed"
               /\ HasDiagnosis(uploads[uploadId[i]])
               /\ uploads[uploadId[i]].parasites_detected # NULL

\* C6: the model is never called for a sample whose stored status is still
\* 'pending'.
ModelCalledAfterProcessing ==
    \A i \in Invocations :
        (pc[i] = "awaitModel" /\ uploadId[i] \in DOMAIN uploads)
            => uploads[uploadId[i]].status # "pending"

\* C7: while a single invocation is the only writer, no state of the store has
\* 'completed' with a null diagnosis or a diagnosis with another status.
CompletedWithDiagnosisAtOnce ==
    \A i \in Invocations :
        Alone(i) => \A id \in DOMAIN uploads :
                        uploads[id].status = "completed" <=> HasDiagnosis(uploads[id])

\* C7 witness: the single invocation has stored 'completed' with the diagnosis.
SoleInvocationCompleted ==
    \E i \in Invocations :
        /\ Alone(i)
        /\ pc[i] = "report"
        /\ uploadId[i] \in DOMAIN uploads
        /\ uploads[uploadId[i]].status = "completed"
        /\ HasDiagnosis(uploads[uploadId[i]])

\* C8: when the select finds no row for the id, the step that receives its
\* answer returns an error response, and the invocation has issued and issues
\* no update of uploads, no model call and no report insert; the tables are
\* as before.
UnknownIdPersistsNothing ==
    [][\A i \in Invocations :
          (pc[i] = "select" /\ uploadId[i] \notin DOMAIN uploads /\ pc'[i] # pc[i])
              => /\ pc'[i] = "done"
                 /\ response'[i].status = 500 /\ ~response'[i].success
                 /\ uploads' = uploads /\ reports' = reports
                 /\ storeWrites'[i] = 0 /\ modelCalls'[i] = 0
                 /\ reportInserts'[i] = 0]_vars

\* C8 witness: an invocation on the id the store never held has returned.
UnknownIdReturned ==
    \E i \in Invocations :
        /\ pc[i] = "done"
        /\ uploadId[i] = UnknownId
        /\ response[i].error = NoRowsError

\* C9: after a non-success answer the error response carries the reason of
\* the answer's status: 429 rate limited, 402 quota exhausted, any other
\* status the upstream error; the caller tells the three apart.
ReasonFollowsStatus ==
    \A i \in Invocations :
        (pc[i] = "done" /\ aiResponse[i].state = "answered" /\ ~aiResponse[i].ok)
            => /\ response[i].status = 500
               /\ ReasonOf(response[i]) = ReasonFor(aiResponse[i].status)

\* C9 witness: two invocations returned after answers 429 and 402.
TwoReasonsReturned ==
    \E i, j \in Invocations :
        /\ pc[i] = "done" /\ aiResponse[i].state = "answered" /\ aiResponse[i].status = 429
        /\ pc[j] = "done" /\ aiResponse[j].state = "answered" /\ aiResponse[j].status = 402
        /\ ReasonOf(response[i]) # ReasonOf(response[j])

\* C10: when the model call of an invocation on a pending sample throws, the
\* sample ends 'failed' without a diagnosis, the caller gets the upstream
\* error reason and no report is inserted (stated for an invocation that runs
\* alone).
ThrownCallEndsFailed ==
    \A i \in Invocations :
        (Returned(i) /\ Alone(i) /\ aiResponse[i].state = "threw")
            => /\ uploads[uploadId[i]].status = "failed"
               /\ ~HasDiagnosis(uploads[uploadId[i]])
               /\ ReasonOf(response[i]) = "upstream_error"
               /\ reportInserts[i] = 0

\* The reports that reference sample id.
ReportsOf(id) == {k \in 1..Len(reports) : reports[k].upload_id = id}

\* C11: in every state of the store at most one report references any one
\* sample.
AtMostOneReportPerSample ==
    \A id \in SampleIds : Cardinality(ReportsOf(id)) <= 1

\* C12: a report insert is issued only after the update to 'completed' has
\* succeeded.  An invocation that has issued one got a success answer from the
\* gateway, issued both updates and returns success; an invocation that
\* returned an error (the model call failed, the final update gave an error)
\* has issued none; and when an invocation running alone is about to issue
\* the insert, its sample is stored as 'completed' with the diagnosis.
ReportAfterCompletedUpdate ==
    \A i \in Invocations :
        /\ reportInserts[i] > 0 =>
              /\ aiResponse[i].state = "answered" /\ aiResponse[i].ok
              /\ storeWrites[i] = 2
              /\ pc[i] = "done" /\ response[i].success
        /\ (pc[i] = "done" /\ ~response[i].success) => reportInserts[i] = 0
        /\ (pc[i] = "report" /\ Alone(i) /\ uploadId[i] \in DOMAIN uploads) =>
              /\ uploads[uploadId[i]].status = "completed"
              /\ HasDiagnosis(uploads[uploadId[i]])

\* C12 witness: one invocation has inserted its report, another has returned
\* the error of its final update without issuing an insert.
ReportInsertedAndRefused ==
    \E i, j \in Invocations :
        /\ pc[i] = "done" /\ reportInserts[i] = 1 /\ Len(reports) = 1
        /\ pc[j] = "done" /\ storeWrites[j] = 2 /\ ~response[j].success
        /\ reportInserts[j] = 0

\* C13: the step in which an invocation's report insert fails (the reports
\* table is left as it was) changes no row of the uploads table: status and
\* diagnosis stay as the completed update stored them.
FailedInsertKeepsSample ==
    [][\A i \in Invocations :
          (pc[i] = "report" /\ pc'[i] = "done" /\ reports' = reports)
              => uploads' = uploads]_vars

\* C13 witness: an invocation running alone has returned after a failed
\* insert, its sample still 'completed' with the diagnosis.
InsertFailedSampleCompleted ==
    \E i \in Invocations :
        /\ Returned(i) /\ Alone(i) /\ reportInserts[i] = 1 /\ reports = <<>>
        /\ uploads[uploadId[i]].status = "completed"
        /\ HasDiagnosis(uploads[uploadId[i]])

\* C14: an invocation whose report insert failed does not return the response
\* of an invocation whose insert succeeded, which is the 200 success response
\* (stated for an invocation that runs alone on a stored sample, so the empty
\* reports table means its own insert failed).
InsertFailureSurfaced ==
    \A i \in Invocations :
        (Returned(i) /\ Alone(i) /\ reportInserts[i] = 1 /\ reports = <<>>)
            => ~(response[i].status = 200 /\ response[i].success)

DiagnosisOf(row) ==
    <<row.diagnosis_result, row.probability_score, row.parasites_detected>>

\* The diagnosis columns as the completed update of parse result p stores them.
DiagnosisFrom(p) ==
    <<Cast("diagnosis_result", p.result), Cast("probability_score", p.confidence),
      Cast("parasites_detected", p.parasitesCount)>>

\* C16: the last write wins.  Whatever other invocations have stored, the step
\* in which an invocation's completed update is applied (it returns no error
\* and the sample is in the store) leaves the sample with that invocation's
\* diagnosis, and no other step changes the diagnosis of a stored sample: so
\* after both of two overlapping invocations have returned, the stored
\* diagnosis is that of the completed update applied last.
LastCompletedUpdateWins ==
    [][\A id \in DOMAIN uploads \cap DOMAIN uploads' :
          /\ \A i \in Invocations :
                (pc[i] = "complete" /\ pc'[i] = "report" /\ uploadId[i] = id)
                    => /\ uploads'[id].status = "completed"
                       /\ DiagnosisOf(uploads'[id]) = DiagnosisFrom(parsed[i])
          /\ DiagnosisOf(uploads'[id]) # DiagnosisOf(uploads[id])
                => \E i \in Invocations :
                      pc[i] = "complete" /\ pc'[i] = "report" /\ uploadId[i] = id]_vars

\* C16 witness: two invocations on the same sample overlapped (the one whose
\* report was inserted first applied its completed update last), both
\* returned success with different verdicts, and the store holds the verdict
\* of the later update.
OverlappingInvocationsReturned ==
    \E i, j \in Invocations :
        /\ i # j /\ uploadId[i] = uploadId[j] /\ Returned(i) /\ Returned(j)
        /\ response[i].success /\ response[j].success
        /\ response[i].result # response[j].result
        /\ uploads[uploadId[i]].diagnosis_result = <<response[j].result>>
        /\ Len(reports) = 2
        /\ reports[1].result_summary.diagnosis = ToUpperCase(response[j].result)
        /\ reports[2].result_summary.diagnosis = ToUpperCase(response[i].result)

\* The parse step has run on the payload.
Parsed == diagnosis # <<>>

\* C17: for every payload the parse step yields a verdict, a confidence, a
\* parasite count and findings that are all defined.
ParseYieldsDefinedFields ==
    Parsed =>
        /\ diagnosis[1].result \in {"positive", "negative"}
        /\ diagnosis[1].confidence.k # "undefined"
        /\ diagnosis[1].parasitesCount.k # "undefined"
        /\ diagnosis[1].description.k # "undefined"

\* C18: every diagnosis in the store has a verdict of positive or negative, a
\* confidence that is an integer in 0..100 and a parasite count that is an
\* integer >= 0.
PersistedDiagnosisInRange ==
    \A id \in DOMAIN uploads :
        HasDiagnosis(uploads[id]) =>
            /\ uploads[id].diagnosis_result[1] \in {"positive", "negative"}
            /\ ~uploads[id].probability_score[1].frac
            /\ uploads[id].probability_score[1].n \in 0..100
            /\ uploads[id].parasites_detected # NULL
            /\ uploads[id].parasites_detected[1] >= 0

\* Whether the parse step has run on a text whose braces hold no JSON.
ParsedInvalidJson ==
    /\ Parsed
    /\ payload.k = "string"
    /\ JsonMatch(payload.s) # <<>>
    /\ ~JsonParses(payload.s, JsonMatch(payload.s))

\* C19: when the payload has a brace-delimited substring that is no JSON, the
\* verdict, the confidence and the parasite count are those the text fallback
\* extracts from the payload.
FallbackWhenJsonInvalid ==
    ParsedInvalidJson =>
        /\ diagnosis[1].result = ParseText(payload).result
        /\ diagnosis[1].confidence = ParseText(payload).confidence
        /\ diagnosis[1].parasitesCount = ParseText(payload).parasitesCount

\* The verdict a lower-case word starts with, "" when it starts with neither.
VerdictAtStart(str) ==
    CASE str \in {"positive", "positive."} -> "positive"
      [] str \in {"negative", "negative."} -> "negative"
      [] OTHER -> ""

\* text.toLowerCase().match(/(?:diagnosis|result):\s*(positive|negative)/i):
\* the first label directly followed, after optional whitespace, by a verdict.
\* <<>> is no match, else <<the verdict>>.
DiagnosisMatch(text) ==
    LET at == {j \in 1..Len(text) :
                 /\ text[j].t = "word"
                 /\ ToLowerCase(text[j].s) \in {"diagnosis:", "result:"}
                 /\ LET nxt == SkipSpaces(text, j + 1)
                    IN  /\ nxt <= Len(text)
                        /\ text[nxt].t = "word"
                        /\ VerdictAtStart(ToLowerCase(text[nxt].s)) # ""}
    IN  IF at = {} THEN <<>>
        ELSE <<VerdictAtStart(ToLowerCase(text[SkipSpaces(text, Min(at) + 1)].s))>>

\* C20: when a payload without braces has a labelled diagnosis, the verdict
\* is the labelled value, whatever keywords the rest of the text holds.
LabelledDiagnosisWins ==
    (Parsed /\ payload.k = "string" /\ JsonMatch(payload.s) = <<>>
        /\ DiagnosisMatch(payload.s) # <<>>)
        => diagnosis[1].result = DiagnosisMatch(payload.s)[1]

\* Whether the parse step has run on a well-formed JSON object with a string
\* result, an integer confidence, an integer parasites_count and a non-empty
\* description.
ParsedWellFormedJson ==
    /\ Parsed
    /\ payload.k = "string"
    /\ JsonMatch(payload.s) # <<>>
    /\ JsonParses(payload.s, JsonMatch(payload.s))
    /\ LET m == JsonMatch(payload.s)
           c == Member(payload.s, m, "confidence")
           n == Member(payload.s, m, "parasites_count")
       IN  /\ Member(payload.s, m, "result").k = "string"
           /\ c.k = "number" /\ ~c.frac
           /\ n.k = "number" /\ ~n.frac
           /\ Truthy(Member(payload.s, m, "description"))

\* C21: for a well-formed JSON payload the parse step returns the values of
\* the object: positive iff result contains "positive" in any case, the
\* confidence and the parasite count as given, the description as findings.
JsonValuesReturned ==
    ParsedWellFormedJson =>
        LET m == JsonMatch(payload.s)
        IN  /\ diagnosis[1].result = "positive"
                  <=> Includes(Member(payload.s, m, "result").s, "positive")
            /\ diagnosis[1].confidence = Member(payload.s, m, "confidence")
            /\ diagnosis[1].parasitesCount = Member(payload.s, m, "parasites_count")
            /\ diagnosis[1].description = Member(payload.s, m, "description")

\* Whether the parse step has run on a text without a brace-delimited part.
ParsedProse == Parsed /\ payload.k = "string" /\ JsonMatch(payload.s) = <<>>

\* The positions of the text where a digit run is directly followed by "%".
PercentAt(text) ==
    {j \in 1..(Len(text) - 1) : text[j].t = "num" /\ text[j + 1] = PCT}

\* The positions of the text where a digit run is followed, after optional
\* whitespace, by a word that starts with "parasite".
ParasiteCountAt(text) ==
    {j \in 1..Len(text) :
        /\ text[j].t = "num"
        /\ \E k \in (j + 1)..Len(text) :
              /\ \A x \in (j + 1)..(k - 1) : text[x].t = "sp"
              /\ text[k].t = "word"
              /\ StartsWithParasite(ToLowerCase(text[k].s))}

RecommendationByVerdictOnly ==
    /\ Cardinality({reports[k].recommendations : k \in 1..Len(reports)}) <= 2
    /\ \A k, l \in 1..Len(reports) :
          reports[k].result_summary.diagnosis = reports[l].result_summary.diagnosis
              <=> reports[k].recommendations = reports[l].recommendations

\* C23 witness: two reports with the same verdict and different confidence
\* and parasite count carry the same recommendation.
SameVerdictSameRecommendation ==
    \E k, l \in 1..Len(reports) :
        /\ reports[k].result_summary.diagnosis = reports[l].result_summary.diagnosis
        /\ reports[k].result_summary.confidence # reports[l].result_summary.confidence
        /\ reports[k].result_summary.parasites # reports[l].result_summary.parasites
        /\ reports[k].result_summary.analysis # reports[l].result_summary.analysis
        /\ reports[k].recommendations = reports[l].recommendations

\* C30: an invocation whose sample was deleted after its load does not go on
\* to the success response: the step that answers its final update ends the
\* invocation with an error response.
DeletedSampleNotSuccess ==
    [][\A i \in Invocations :
          (pc[i] = "complete" /\ uploadId[i] \notin DOMAIN uploads)
              => \/ pc'[i] = pc[i]
                 \/ pc'[i] = "done" /\ ~response'[i].success]_vars

\* The document downloadReport is writing or has saved.
Saved == doc # <<>> /\ doc[1].at = "saved"

\* The texts of the document that belong to block kind, in drawing order.
DrawnOf(kind) == SelectSeq(doc[1].drawn, LAMBDA e : e.kind = kind)

\* C24: while the document is written the k-th text of the bio, of the summary
\* and of the recommendations is the k-th line of that block (no line is
\* drawn twice, skipped or out of order) and the page numbers of the texts
\* never decrease; the saved document has as many texts of a block as the
\* block has lines.
LinesPlacedOnceInOrder ==
    doc # <<>> =>
        /\ \A kind \in {"bio", "summary", "recommendations"} :
              /\ \A k \in 1..Len(DrawnOf(kind)) : DrawnOf(kind)[k].idx = k
              /\ Saved => Len(DrawnOf(kind)) = LinesOf(report[1], kind)
        /\ \A k \in 1..(Len(doc[1].drawn) - 1) :
              doc[1].drawn[k].page <= doc[1].drawn[k + 1].page

\* C24 witness: a saved document whose bio runs over a page break, whose
\* last text is the last line of the recommendations, of a report without
\* a name (a block of zero lines is the report without recommendations,
\* which the same formula covers).
BlocksAcrossPages ==
    /\ Saved
    /\ \E k \in 1..(Len(DrawnOf("bio")) - 1) :
          DrawnOf("bio")[k].page < DrawnOf("bio")[k + 1].page
    /\ report[1].recLines = MaxRecLines
    /\ doc[1].drawn[Len(doc[1].drawn)].kind = "recommendations"
    /\ doc[1].drawn[Len(doc[1].drawn)].idx = MaxRecLines

\* C25: every text of the document is drawn inside the page and above the
\* footer.
TextsAboveFooter ==
    doc # <<>> =>
        \A k \in 1..Len(doc[1].drawn) :
            doc[1].drawn[k].y >= 0 /\ doc[1].drawn[k].y < FooterY

\* The columns of a report a save must leave alone.
KeptFields == {"id", "user_id", "upload_id", "result_summary", "recommendations", "created_at"}

\* C26: a step of the Reports page keeps the rows of reports and, in every
\* row, the summary, the recommendations, the sample reference and the
\* creation time; a save whose update fails leaves the table as it was.
SaveChangesAnnotationsOnly ==
    [][reportsPage # <<>> =>
        /\ DOMAIN reports' = DOMAIN reports
        /\ \A k \in DOMAIN reports : \A f \in KeptFields : reports'[k][f] = reports[k][f]
        /\ (/\ reportsPage'[1].saveCalls > reportsPage[1].saveCalls
            /\ reportsPage'[1].saves[Len(reportsPage'[1].saves)].error)
              => reports' = reports]_vars

\* C26 witness: one save has failed and one has changed the species label of
\* a report that had none.
AnnotationSavedAndRefused ==
    /\ reportsPage # <<>>
    /\ reportsPage[1].toasts = <<"Failed to update report", "Patient information updated">>
    /\ \E k \in DOMAIN reports : reports[k].malaria_species = <<"a">>

\* The calls of handleUpload that have returned, in order: call n ended with
\* toast n.
ReturnedUploads == 1..Len(uploadSection[1].toasts)

\* C27: analyze is invoked only with the id of a row of uploads that is
\* 'pending' and whose image is in the bucket; a call of handleUpload that
\* ended with a failure left no row and invoked nothing; the uploading flag
\* is up exactly while a call is under way.
AnalyzeAfterStoredAndInserted ==
    uploadSection # <<>> =>
        /\ \A k \in 1..Len(analyzeCalls) :
              LET id == analyzeCalls[k].uploadId
              IN  /\ id \in DOMAIN uploads
                  /\ uploads[id].status = "pending"
                  /\ \E name \in storage : uploads[id].file_url = PublicUrl(name)
        /\ \A n \in ReturnedUploads :
              uploadSection[1].toasts[n] = "Upload failed" =>
                  /\ NewId(n) \notin DOMAIN uploads
                  /\ \A k \in 1..Len(analyzeCalls) : analyzeCalls[k].uploadId # NewId(n)
        /\ uploadSection[1].uploading <=> uploadSection[1].at # "idle"

\* C27 witness: a call whose image was stored and whose insert failed, then
\* a call that invoked analyze, both returned.
UploadFailedThenAnalyzed ==
    /\ uploadSection # <<>>
    /\ uploadSection[1].toasts = <<"Upload failed", "Analysis started!">>
    /\ Cardinality(storage) = 2
    /\ Len(analyzeCalls) = 1
    /\ ~uploadSection[1].uploading

\* Text t presents the percentage c.
Presents(t, c) == t.kind = "percent" /\ t.n = c /\ t.decimals \in {<<>>, <<0>>}

\* C28: for a stored confidence c the results list, the report view and the
\* document all show the percentage c.
ConfidenceShownAsStored ==
    (rendered # <<>> /\ score[1].k = "number") =>
        /\ Presents(rendered[1].row, score[1].n)
        /\ Presents(rendered[1].stat, score[1].n)
        /\ Presents(rendered[1].line, score[1].n)

\* C29: once every change notification is delivered and every fetch has
\* returned, the list shows each stored sample with its stored status.
ShownStatusIsStored ==
    (/\ resultsGrid # <<>>
     /\ channel = 0
     /\ resultsGrid[1].fetches = {})
        => resultsGrid[1].uploads = Snapshot

====
